---- MODULE Spec2Model ----
(***************************************************************************)
(* A model of scripts/generate-isl-dataset.py: the asset inventory loader, *)
(* the vocabulary aggregator, the action resolver, the example             *)
(* synthesizer, the variant expander, the statistics report and the three  *)
(* exporters, run in the order of the script's main block.                 *)
(*                                                                         *)
(* Python strings are TLA+ strings; TLC evaluates Len, Head, Tail, SubSeq  *)
(* and \o on them, so the string methods the script uses (lower, replace,  *)
(* endswith, "in", the f-string templates, the ordering used by sorted)    *)
(* are computed character by character as Python computes them.            *)
(***************************************************************************)
EXTENDS Integers, Sequences, FiniteSets, TLC

(***************************************************************************)
(* Bounds.                                                                 *)
(***************************************************************************)
\* The largest number of entries of the three vocabulary lists together.
MaxVocab == 2

\* The largest number of .sigml files in the asset directory.
MaxFiles == 2

(***************************************************************************)
(* str methods.                                                            *)
(***************************************************************************)
\* The characters that occur in the model's strings, in code point order.
CodePoints ==
    <<
      " ", "&", "'", "-", "0", "1", "2", "3", "4", "5", "6", "7", "8",
      "9", "A", "B", "C", "D", "E", "F", "G", "H", "I", "J", "K", "L",
      "M", "N", "O", "P", "Q", "R", "S", "T", "U", "V", "W", "X", "Y",
      "Z", "a", "b", "c", "d", "e", "f", "g", "h", "i", "j", "k", "l",
      "m", "n", "o", "p", "q", "r", "s", "t", "u", "v", "w", "x", "y",
      "z" >>

UpperCase ==
    <<
      "A", "B", "C", "D", "E", "F", "G", "H", "I", "J", "K", "L", "M",
      "N", "O", "P", "Q", "R", "S", "T", "U", "V", "W", "X", "Y", "Z" >>

LowerCase ==
    <<
      "a", "b", "c", "d", "e", "f", "g", "h", "i", "j", "k", "l", "m",
      "n", "o", "p", "q", "r", "s", "t", "u", "v", "w", "x", "y", "z" >>

\* ord(c) up to a constant offset: only the order of code points is used.
Ord(c) == CHOOSE i \in 1..Len(CodePoints) : CodePoints[i] = c

LowerChar(c) ==
    IF \E i \in 1..Len(UpperCase) : UpperCase[i] = c
    THEN LowerCase[CHOOSE i \in 1..Len(UpperCase) : UpperCase[i] = c]
    ELSE c

\* str.lower()
RECURSIVE lower(_)
lower(s) == IF s = "" THEN "" ELSE LowerChar(Head(s)) \o lower(Tail(s))

\* str.replace(old, new) for a non-empty old: every non-overlapping
\* occurrence, scanning from the left.
RECURSIVE replace(_, _, _)
replace(s, old, new) ==
    IF Len(s) < Len(old) THEN s
    ELSE IF SubSeq(s, 1, Len(old)) = old
         THEN new \o replace(SubSeq(s, Len(old) + 1, Len(s)), old, new)
         ELSE Head(s) \o replace(Tail(s), old, new)

\* str.endswith(suffix)
endswith(s, suffix) ==
    /\ Len(s) >= Len(suffix)
    /\ SubSeq(s, Len(s) - Len(suffix) + 1, Len(s)) = suffix

\* sub in s
contains(s, sub) ==
    \E i \in 1..(Len(s) - Len(sub) + 1) : SubSeq(s, i, i + Len(sub) - 1) = sub

\* s[:-1]
DropLast(s) == SubSeq(s, 1, Len(s) - 1)

\* a < b on str: lexicographic by code point, a proper prefix first.
RECURSIVE StrLess(_, _)
StrLess(a, b) ==
    IF b = "" THEN FALSE
    ELSE IF a = "" THEN TRUE
    ELSE IF Head(a) # Head(b) THEN Ord(Head(a)) < Ord(Head(b))
    ELSE StrLess(Tail(a), Tail(b))

Digit(n) == SubSeq("0123456789", n + 1, n + 1)

\* The decimal text an f-string gives a non-negative int.
RECURSIVE str(_)
str(n) == IF n < 10 THEN Digit(n) ELSE str(n \div 10) \o Digit(n % 10)

(***************************************************************************)
(* list, set and dict operations.                                          *)
(***************************************************************************)
\* set(list)
set(l) == {l[i] : i \in 1..Len(l)}

\* The orders in which iterating a set may yield its elements.
RECURSIVE IterationOrders(_)
IterationOrders(S) ==
    IF S = {} THEN {<<>>}
    ELSE UNION {{<<x>> \o o : o \in IterationOrders(S \ {x})} : x \in S}

RECURSIVE Insert(_, _)
Insert(w, l) ==
    IF l = <<>> THEN <<w>>
    ELSE IF StrLess(w, Head(l)) THEN <<w>> \o l
    ELSE <<Head(l)>> \o Insert(w, Tail(l))

\* The iterable taken in the order it yields its elements, not sorted.
sorted_omitted(l) == l

\* sorted(iterable) of str, given the order the iterable yields them in.
RECURSIVE sorted(_)
sorted(l) == IF l = <<>> THEN <<>> ELSE Insert(Head(l), sorted(Tail(l)))

\* A dict is the sequence of its <<key, value>> items as written or assigned;
\* a later item of the same key replaces the earlier one.
HasKey(d, k) == \E i \in 1..Len(d) : d[i][1] = k

\* dict.get(k, default)
get(d, k, default) ==
    IF HasKey(d, k)
    THEN d[CHOOSE i \in 1..Len(d) :
               d[i][1] = k /\ \A j \in (i + 1)..Len(d) : d[j][1] # k][2]
    ELSE default

(***************************************************************************)
(* The script's tables, restricted to the entries the model's vocabulary   *)
(* and its stems look up.                                                  *)
(***************************************************************************)
\* Entries of CISLR_VOCABULARY in the order of the list ("catch" is listed
\* twice), followed by four probe words that exercise the resolver's branches
\* no listed word reaches: an unmapped word, a word whose stem is mapped, a
\* word ending in "ing", a word with an upper-case letter.
CISLR_ENTRIES ==
    <<"evacuate", "walk", "catch", "wash", "see", "catch", "pay", "seed",
      "xyz123", "jogs", "sing", "Run">>

\* Entries of INCLUDE_VOCABULARY in the order of the list.
INCLUDE_ENTRIES == <<"wash", "pay">>

\* Entries of ISLTRANSLATE_VOCABULARY in the order of the list.
ISLTRANSLATE_ENTRIES == <<"seed", "pay">>

\* Stems of the .sigml files the asset directory may hold.
SIGN_FILE_STEMS == {"run", "do", "work", "jog", "Evacuate"}

\* Files under the asset directory that "*.sigml" does not select: another
\* extension, and a .sigml file inside a subdirectory.
OTHER_FILES == {"README.md", "archive/wave.sigml"}

\* Path.glob("*.sigml") over the paths of the files under a directory: the
\* files directly in it whose name ends in ".sigml".
glob(files) ==
    {f \in files : ~contains(f, "/") /\ endswith(f, ".sigml")}

\* Path.name: the path after its last "/".
name(path) ==
    LET slashes == {i \in 1..Len(path) : SubSeq(path, i, i) = "/"}
    IN  IF slashes = {} THEN path
        ELSE SubSeq(path, (CHOOSE i \in slashes : \A j \in slashes : j <= i) + 1,
                    Len(path))

\* Path.stem: the name without its last suffix.
stem(path) ==
    LET n    == name(path)
        dots == {i \in 2..Len(n) : SubSeq(n, i, i) = "."}
    IN  IF dots = {} THEN n
        ELSE SubSeq(n, 1, (CHOOSE i \in dots : \A j \in dots : j <= i) - 1)

action_mappings ==
    << <<"evacuate", "run">>, <<"walk", "walk">>, <<"run", "run">>,
       <<"jog", "run">>, <<"catch", "catch">>, <<"wash", "wash">>,
       <<"see", "look">>, <<"pay", "give">>, <<"seed", "remove">>,
       <<"seed", "plant">> >>

categories ==
    << <<"Disaster Management", <<"evacuate", "rescue">> >>,
       <<"Movement Actions", <<"walk", "run", "jog">> >>,
       <<"Hand Actions", <<"push", "catch">> >>,
       <<"Daily Activities", <<"eat", "wash">> >>,
       <<"Communication", <<"talk", "speak">> >>,
       <<"Sports & Exercise", <<"exercise", "kick">> >>,
       <<"Professional", <<"build", "repair">> >>,
       <<"Medical", <<"diagnose", "examine">> >>,
       <<"Food Preparation", <<"chop", "cut">> >>,
       <<"Technology", <<"click", "type">> >>,
       <<"Household", <<"iron", "fold">> >>,
       <<"Shopping", <<"shop", "pay">> >>,
       <<"Education", <<"spell", "memorize">> >>,
       <<"Social", <<"meet", "greet">> >>,
       <<"Transportation", <<"board", "accelerate">> >>,
       <<"Agricultural", <<"plant", "seed">> >>,
       <<"Construction", <<"construct", "demolish">> >>,
       <<"Environmental", <<"recycle", "conserve">> >>,
       <<"Financial", <<"earn", "pay">> >>,
       <<"Legal", <<"sue", "judge">> >> >>

\* The assignments word_to_category[word] = category, in loop order.
RECURSIVE CategoryItems(_)
CategoryItems(cats) ==
    IF cats = <<>> THEN <<>>
    ELSE [i \in 1..Len(Head(cats)[2]) |-> <<Head(cats)[2][i], Head(cats)[1]>>]
         \o CategoryItems(Tail(cats))

\* word_to_category filled from the last category to the first.
word_to_category_reversed ==
    CategoryItems([k \in 1..Len(categories) |-> categories[Len(categories) + 1 - k]])

word_to_category == CategoryItems(categories)

(***************************************************************************)
(* The state of a run.                                                     *)
(***************************************************************************)
VARIABLES
    pc,                       \* the statement the run is at
    CISLR_VOCABULARY,         \* the three vocabulary lists
    INCLUDE_VOCABULARY,
    ISLTRANSLATE_VOCABULARY,
    sign_dir,                 \* the asset directory: whether it exists, the files under it
    AVAILABLE_SIGNS,          \* the module-level inventory
    dataset,                  \* the list generate_action_dataset returns
    statistics,               \* what print_statistics reports
    json_file,                \* isl-dataset.json
    csv_file,                 \* isl-dataset.csv
    ts_file,                  \* isl-dataset.ts
    console                   \* the progress lines printed so far

vars ==
    <<pc, CISLR_VOCABULARY, INCLUDE_VOCABULARY, ISLTRANSLATE_VOCABULARY, sign_dir,
      AVAILABLE_SIGNS, dataset, statistics, json_file, csv_file, ts_file, console>>

(***************************************************************************)
(* generate_action_dataset.                                                *)
(***************************************************************************)
\* base_word: the four chained replace calls.
base_word(word) ==
    replace(replace(replace(replace(word, "ing", ""), "ed", ""), "es", ""), "s", "")

\* The action the word -> action map gives before the inventory is consulted.
mapped_action(word) ==
    get(action_mappings, word, get(action_mappings, base_word(word), lower(word)))

\* sign_action with the last fallback not checked against the inventory.
sign_action_unchecked_fallback(word, available) ==
    LET action == mapped_action(word)
    IN  IF lower(action) \notin available
        THEN IF lower(word) \in available THEN lower(word)
             ELSE IF lower(base_word(word)) \in available THEN lower(base_word(word))
             ELSE "do"
        ELSE action

\* sign_action trying the word itself before the mapped action.
sign_action_word_first(word, available) ==
    IF lower(word) \in available THEN lower(word)
    ELSE IF lower(mapped_action(word)) \in available THEN mapped_action(word)
    ELSE IF lower(base_word(word)) \in available THEN lower(base_word(word))
    ELSE IF "do" \in available THEN "do" ELSE "work"

\* sign_action skipping the validation when the inventory is empty.
sign_action_skip_when_empty(word, available) ==
    LET action == mapped_action(word)
    IN  IF available # {} /\ lower(action) \notin available
        THEN IF lower(word) \in available THEN lower(word)
             ELSE IF lower(base_word(word)) \in available THEN lower(base_word(word))
             ELSE IF "do" \in available THEN "do" ELSE "work"
        ELSE action

\* sign_action after validation against the inventory.
sign_action(word, available) ==
    LET action == mapped_action(word)
    IN  IF lower(action) \notin available
        THEN IF lower(word) \in available THEN lower(word)
             ELSE IF lower(base_word(word)) \in available THEN lower(base_word(word))
             ELSE IF "do" \in available THEN "do" ELSE "work"
        ELSE action

\* sov_example with "Hand Actions" left out of the second template's list.
sov_example_movement_only(word, category) ==
    IF category = "Disaster Management" THEN "I people " \o word
    ELSE IF category \in {"Movement Actions"} THEN "I now " \o word
    ELSE IF contains(category, "Daily") \/ contains(category, "Activities")
         THEN "I " \o word \o " do"
    ELSE "I " \o word

\* sov_example of the base entry.
sov_example(word, category) ==
    IF category = "Disaster Management" THEN "I people " \o word
    ELSE IF category \in {"Movement Actions", "Hand Actions"} THEN "I now " \o word
    ELSE IF contains(category, "Daily") \/ contains(category, "Activities")
         THEN "I " \o word \o " do"
    ELSE "I " \o word

Entry(w, s, e, c) == [word |-> w, sign |-> s, sovExample |-> e, category |-> c]

\* entries appending the "-ing" variant without the endswith('ing') test.
entries_ing_unguarded(word, available) ==
    LET category == get(word_to_category, word, "General")
        sign == sign_action(word, available)
    IN  <<Entry(word, sign, sov_example(word, category), category)>>
        \o <<Entry(IF ~endswith(word, "e") THEN word \o "ing" ELSE DropLast(word) \o "ing",
                    sign, "I " \o word \o "ing am", category)>>
        \o (IF ~endswith(word, "ed")
            THEN <<Entry(IF ~endswith(word, "e") THEN word \o "ed" ELSE word \o "d",
                         sign, "I yesterday " \o word \o "ed", category)>>
            ELSE <<>>)

\* entries giving the variants the mapped action instead of the validated sign.
entries_variant_unvalidated(word, available) ==
    LET category == get(word_to_category, word, "General")
        sign == sign_action(word, available)
    IN  <<Entry(word, sign, sov_example(word, category), category)>>
        \o (IF ~endswith(word, "ing")
            THEN <<Entry(IF ~endswith(word, "e") THEN word \o "ing"
                                                 ELSE DropLast(word) \o "ing",
                         mapped_action(word), "I " \o word \o "ing am", category)>>
            ELSE <<>>)
        \o (IF ~endswith(word, "ed")
            THEN <<Entry(IF ~endswith(word, "e") THEN word \o "ed" ELSE word \o "d",
                         mapped_action(word), "I yesterday " \o word \o "ed", category)>>
            ELSE <<>>)

\* entries appending the suffixes to the unmodified word.
entries_suffix_appended(word, available) ==
    LET category == get(word_to_category, word, "General")
        sign == sign_action(word, available)
    IN  <<Entry(word, sign, sov_example(word, category), category)>>
        \o (IF ~endswith(word, "ing")
            THEN <<Entry(word \o "ing", sign, "I " \o word \o "ing am", category)>>
            ELSE <<>>)
        \o (IF ~endswith(word, "ed")
            THEN <<Entry(word \o "ed", sign, "I yesterday " \o word \o "ed", category)>>
            ELSE <<>>)

\* The entries one iteration of the loop appends for `word`.
entries(word, available) ==
    LET category == get(word_to_category, word, "General")
        sign == sign_action(word, available)
    IN  <<Entry(word, sign, sov_example(word, category), category)>>
        \o (IF ~endswith(word, "ing")
            THEN <<Entry(IF ~endswith(word, "e") THEN word \o "ing"
                                                 ELSE DropLast(word) \o "ing",
                         sign, "I " \o word \o "ing am", category)>>
            ELSE <<>>)
        \o (IF ~endswith(word, "ed")
            THEN <<Entry(IF ~endswith(word, "e") THEN word \o "ed" ELSE word \o "d",
                         sign, "I yesterday " \o word \o "ed", category)>>
            ELSE <<>>)

\* The loop over the sorted words.
RECURSIVE generate(_, _)
generate(words, available) ==
    IF words = <<>> THEN <<>>
    ELSE entries(Head(words), available) \o generate(Tail(words), available)

\* all_words
all_words == set(CISLR_VOCABULARY \o INCLUDE_VOCABULARY \o ISLTRANSLATE_VOCABULARY)

(***************************************************************************)
(* The exporters' renderings and print_statistics' figures.                *)
(***************************************************************************)
fieldnames == <<"word", "sign", "sovExample", "category">>

\* json.dump(dataset): one object per entry, its members in the dict's order.
json_dump(d) ==
    [i \in 1..Len(d) |->
        << <<"word", d[i].word>>, <<"sign", d[i].sign>>,
           <<"sovExample", d[i].sovExample>>, <<"category", d[i].category>> >>]

\* csv_rows losing the last entry of the dataset.
csv_rows_last_lost(d) ==
    <<fieldnames>>
    \o [i \in 1..(Len(d) - 1) |-> [j \in 1..Len(fieldnames) |-> d[i][fieldnames[j]]]]

\* writeheader() then writerows(dataset): each row's values by fieldnames.
csv_rows(d) ==
    <<fieldnames>> \o [i \in 1..Len(d) |-> [j \in 1..Len(fieldnames) |-> d[i][fieldnames[j]]]]

\* ts_content, line by line.
ts_lines(d) ==
    << "// Auto-generated ISL Dataset",
       "// Total entries: " \o str(Len(d)),
       "// Sources: CISLR (~4,700), INCLUDE (~4,287), ISLTranslate (~31k)",
       "",
       "export const ISL_DATASET = [" >>
    \o [i \in 1..Len(d) |->
          "  { word: '" \o d[i].word \o "', sign: '" \o d[i].sign
          \o "', sovExample: '" \o d[i].sovExample
          \o "', category: '" \o d[i].category \o "' },"]
    \o << "];" >>

NoFile == [exists |-> FALSE, content |-> <<>>]

Written(content) == [exists |-> TRUE, content |-> content]

\* The file an export leaves when it raises: untouched when open() raised;
\* truncated when a write raised, holding nothing yet or all but the last
\* item of the content.
FailedWrite(file, content) ==
    {file, Written(<<>>), Written(SubSeq(content, 1, Len(content) - 1))}

print_statistics(d) ==
    LET unique_signs == {d[i].sign : i \in 1..Len(d)}
    IN  [total |-> Len(d),
         unique_signs |-> Cardinality(unique_signs),
         valid_signs |-> Cardinality({s \in unique_signs : lower(s) \in AVAILABLE_SIGNS}),
         category_counts |->
             {<<c, Cardinality({i \in 1..Len(d) : d[i].category = c})>> :
                 c \in {d[i].category : i \in 1..Len(d)}},
         unique_words |-> Cardinality({d[i].word : i \in 1..Len(d)})]

NoStatistics ==
    [total |-> 0, unique_signs |-> 0, valid_signs |-> 0, category_counts |-> {},
     unique_words |-> 0]

(***************************************************************************)
(* The run.                                                                *)
(***************************************************************************)
\* The entries of l at the indices I, in the order of l.
RECURSIVE Excerpt(_, _)
Excerpt(l, I) ==
    IF l = <<>> THEN <<>>
    ELSE Excerpt(DropLast(l), I) \o (IF Len(l) \in I THEN <<l[Len(l)]>> ELSE <<>>)

\* The excerpts of at most n entries of l.
Excerpts(l, n) ==
    {Excerpt(l, I) : I \in {J \in SUBSET (1..Len(l)) : Cardinality(J) <= n}}

\* The vocabulary lists are excerpts of the script's lists and, like them,
\* not all empty (print_statistics divides by the number of distinct signs).
\* The asset directory is missing, or holds at most MaxFiles .sigml files
\* beside the files "*.sigml" does not select.
Init ==
    /\ pc = "load"
    /\ CISLR_VOCABULARY \in Excerpts(CISLR_ENTRIES, MaxVocab)
    /\ INCLUDE_VOCABULARY \in Excerpts(INCLUDE_ENTRIES, MaxVocab)
    /\ ISLTRANSLATE_VOCABULARY \in Excerpts(ISLTRANSLATE_ENTRIES, MaxVocab)
    /\ Len(CISLR_VOCABULARY) + Len(INCLUDE_VOCABULARY) + Len(ISLTRANSLATE_VOCABULARY)
           \in 1..MaxVocab
    /\ sign_dir \in {[exists |-> FALSE, files |-> {}]}
                    \cup {[exists |-> TRUE,
                           files |-> {s \o ".sigml" : s \in g} \cup OTHER_FILES] :
                             g \in {h \in SUBSET SIGN_FILE_STEMS : Cardinality(h) <= MaxFiles}}
    /\ AVAILABLE_SIGNS = {}
    /\ dataset = <<>>
    /\ statistics = NoStatistics
    /\ json_file = NoFile
    /\ csv_file = NoFile
    /\ ts_file = NoFile
    /\ console = <<>>

\* load_available_signs() scanning the subdirectories too.
LoadAvailableSigns_recursive ==
    /\ pc = "load"
    /\ \E scan \in IterationOrders({f \in sign_dir.files : endswith(f, ".sigml")}) :
          AVAILABLE_SIGNS' =
              IF sign_dir.exists THEN {lower(stem(scan[i])) : i \in 1..Len(scan)} ELSE {}
    /\ console' = console \o <<"[INFO] Found " \o str(Cardinality(AVAILABLE_SIGNS'))
                                \o " available .sigml files">>
    /\ pc' = "generate"
    /\ UNCHANGED <<CISLR_VOCABULARY, INCLUDE_VOCABULARY, ISLTRANSLATE_VOCABULARY,
                   sign_dir, dataset, statistics, json_file, csv_file, ts_file>>

\* load_available_signs(), run when the module is loaded.
LoadAvailableSigns ==
    /\ pc = "load"
    /\ \E scan \in IterationOrders(glob(sign_dir.files)) :
          AVAILABLE_SIGNS' =
              IF sign_dir.exists THEN {lower(stem(scan[i])) : i \in 1..Len(scan)} ELSE {}
    /\ console' = console \o <<"[INFO] Found " \o str(Cardinality(AVAILABLE_SIGNS'))
                                \o " available .sigml files">>
    /\ pc' = "generate"
    /\ UNCHANGED <<CISLR_VOCABULARY, INCLUDE_VOCABULARY, ISLTRANSLATE_VOCABULARY,
                   sign_dir, dataset, statistics, json_file, csv_file, ts_file>>

\* generate_action_dataset looping over the concatenated lists, not their set.
GenerateActionDataset_list_not_set ==
    /\ pc = "generate"
    /\ dataset' = generate(sorted(CISLR_VOCABULARY \o INCLUDE_VOCABULARY
                                      \o ISLTRANSLATE_VOCABULARY), AVAILABLE_SIGNS)
    /\ console' = console \o <<"Generating ISL Action Dataset...">>
    /\ pc' = "statistics"
    /\ UNCHANGED <<CISLR_VOCABULARY, INCLUDE_VOCABULARY, ISLTRANSLATE_VOCABULARY,
                   sign_dir, AVAILABLE_SIGNS, statistics, json_file, csv_file, ts_file>>

\* The banner of the main block, then dataset = generate_action_dataset().
GenerateActionDataset ==
    /\ pc = "generate"
    /\ \E order \in IterationOrders(all_words) :
          dataset' = generate(sorted(order), AVAILABLE_SIGNS)
    /\ console' = console \o <<"Generating ISL Action Dataset...">>
    /\ pc' = "statistics"
    /\ UNCHANGED <<CISLR_VOCABULARY, INCLUDE_VOCABULARY, ISLTRANSLATE_VOCABULARY,
                   sign_dir, AVAILABLE_SIGNS, statistics, json_file, csv_file, ts_file>>

\* print_statistics(dataset)
PrintStatistics ==
    /\ pc = "statistics"
    /\ statistics' = print_statistics(dataset)
    /\ console' = console \o <<"Total entries: " \o str(Len(dataset))>>
    /\ pc' = "export_json"
    /\ UNCHANGED <<CISLR_VOCABULARY, INCLUDE_VOCABULARY, ISLTRANSLATE_VOCABULARY,
                   sign_dir, AVAILABLE_SIGNS, dataset, json_file, csv_file, ts_file>>

Exported(file) ==
    "Exported " \o str(Len(dataset)) \o " entries to " \o file

\* export_to_json(dataset, 'isl-dataset.json')
ExportToJson ==
    /\ pc = "export_json"
    /\ json_file' = Written(json_dump(dataset))
    /\ console' = console \o <<Exported("isl-dataset.json")>>
    /\ pc' = "export_csv"
    /\ UNCHANGED <<CISLR_VOCABULARY, INCLUDE_VOCABULARY, ISLTRANSLATE_VOCABULARY,
                   sign_dir, AVAILABLE_SIGNS, dataset, statistics, csv_file, ts_file>>

\* export_to_json raises OSError: nothing catches it, the interpreter exits.
ExportToJsonFails ==
    /\ pc = "export_json"
    /\ json_file' \in FailedWrite(json_file, json_dump(dataset))
    /\ pc' = "crashed"
    /\ UNCHANGED <<CISLR_VOCABULARY, INCLUDE_VOCABULARY, ISLTRANSLATE_VOCABULARY,
                   sign_dir, AVAILABLE_SIGNS, dataset, statistics, csv_file, ts_file,
                   console>>

\* export_to_csv(dataset, 'isl-dataset.csv')
ExportToCsv ==
    /\ pc = "export_csv"
    /\ csv_file' = Written(csv_rows(dataset))
    /\ console' = console \o <<Exported("isl-dataset.csv")>>
    /\ pc' = "export_ts"
    /\ UNCHANGED <<CISLR_VOCABULARY, INCLUDE_VOCABULARY, ISLTRANSLATE_VOCABULARY,
                   sign_dir, AVAILABLE_SIGNS, dataset, statistics, json_file, ts_file>>

\* The failure of export_to_csv swallowed: the run goes on to the next export.
ExportToCsvFails_swallowed ==
    /\ pc = "export_csv"
    /\ csv_file' \in FailedWrite(csv_file, csv_rows(dataset))
    /\ pc' = "export_ts"
    /\ UNCHANGED <<CISLR_VOCABULARY, INCLUDE_VOCABULARY, ISLTRANSLATE_VOCABULARY,
                   sign_dir, AVAILABLE_SIGNS, dataset, statistics, json_file, ts_file,
                   console>>

\* export_to_csv raises OSError.
ExportToCsvFails ==
    /\ pc = "export_csv"
    /\ csv_file' \in FailedWrite(csv_file, csv_rows(dataset))
    /\ pc' = "crashed"
    /\ UNCHANGED <<CISLR_VOCABULARY, INCLUDE_VOCABULARY, ISLTRANSLATE_VOCABULARY,
                   sign_dir, AVAILABLE_SIGNS, dataset, statistics, json_file, ts_file,
                   console>>

\* generate_typescript_dataset(dataset, 'isl-dataset.ts')
GenerateTypescriptDataset ==
    /\ pc = "export_ts"
    /\ ts_file' = Written(ts_lines(dataset))
    /\ console' = console \o <<"Exported TypeScript dataset to isl-dataset.ts">>
    /\ pc' = "complete"
    /\ UNCHANGED <<CISLR_VOCABULARY, INCLUDE_VOCABULARY, ISLTRANSLATE_VOCABULARY,
                   sign_dir, AVAILABLE_SIGNS, dataset, statistics, json_file, csv_file>>

\* generate_typescript_dataset raises OSError.
GenerateTypescriptDatasetFails ==
    /\ pc = "export_ts"
    /\ ts_file' \in FailedWrite(ts_file, ts_lines(dataset))
    /\ pc' = "crashed"
    /\ UNCHANGED <<CISLR_VOCABULARY, INCLUDE_VOCABULARY, ISLTRANSLATE_VOCABULARY,
                   sign_dir, AVAILABLE_SIGNS, dataset, statistics, json_file, csv_file,
                   console>>

\* The closing prints of the main block.
PrintComplete ==
    /\ pc = "complete"
    /\ console' = console \o <<"Dataset generation complete!">>
    /\ pc' = "done"
    /\ UNCHANGED <<CISLR_VOCABULARY, INCLUDE_VOCABULARY, ISLTRANSLATE_VOCABULARY,
                   sign_dir, AVAILABLE_SIGNS, dataset, statistics, json_file, csv_file,
                   ts_file>>

Next ==
    \/ LoadAvailableSigns
    \/ GenerateActionDataset
    \/ PrintStatistics
    \/ ExportToJson
    \/ ExportToJsonFails
    \/ ExportToCsv
    \/ ExportToCsvFails
    \/ GenerateTypescriptDataset
    \/ GenerateTypescriptDatasetFails
    \/ PrintComplete

Spec == Init /\ [][Next]_vars

(***************************************************************************)
(* Properties.                                                             *)
(***************************************************************************)
\* generate_action_dataset has just returned its dataset, which no later
\* statement assigns or mutates.
Generated == pc = "statistics"

\* The number of entries a word contributes: its own, and one per variant
\* whose suffix it does not already end with.
RowsOf(w) ==
    1 + (IF endswith(w, "ing") THEN 0 ELSE 1) + (IF endswith(w, "ed") THEN 0 ELSE 1)

RECURSIVE TotalRows(_)
TotalRows(S) ==
    IF S = {} THEN 0
    ELSE LET w == CHOOSE x \in S : TRUE IN RowsOf(w) + TotalRows(S \ {w})

\* Where the base entry of w stands when the words are taken in ascending order.
BaseIndex(w) == 1 + TotalRows({v \in all_words : StrLess(v, w)})

\* The sign the dataset holds for the vocabulary word w.
SignOf(w) == dataset[BaseIndex(w)].sign

\* The candidates of the resolver's fallback chain for w.
Candidates(w) == {mapped_action(w), lower(w), base_word(w), "do", "work"}

\* C1: for every vocabulary word and every inventory the resolved sign is a
\* non-empty string, and it is a member of the inventory whenever some
\* candidate of the fallback chain (the mapped action, the word lowered, the
\* stemmed base, "do", "work") is a member of the inventory.
C1_SignNonEmptyAndAvailable ==
    Generated =>
        /\ Len(dataset) = TotalRows(all_words)
        /\ \A w \in all_words :
              /\ SignOf(w) # ""
              /\ Candidates(w) \cap AVAILABLE_SIGNS # {} => SignOf(w) \in AVAILABLE_SIGNS

\* A word whose mapped action has no asset while "work", alone of the
\* candidates, has one: the resolver went down the whole chain.
C1_Witness ==
    /\ Generated
    /\ \E w \in all_words :
          /\ Candidates(w) \cap AVAILABLE_SIGNS = {"work"}
          /\ mapped_action(w) # "work"
          /\ SignOf(w) = "work"

\* The sign the priority order of C2 gives w.
PrioritySign(w) ==
    LET base == base_word(w)
        initial == IF HasKey(action_mappings, w) THEN get(action_mappings, w, "")
                   ELSE IF HasKey(action_mappings, base) THEN get(action_mappings, base, "")
                   ELSE lower(w)
    IN  IF initial \in AVAILABLE_SIGNS THEN initial
        ELSE IF lower(w) \in AVAILABLE_SIGNS THEN lower(w)
        ELSE IF base \in AVAILABLE_SIGNS THEN base
        ELSE IF "do" \in AVAILABLE_SIGNS THEN "do"
        ELSE "work"

\* C2: the resolver applies its candidates in a fixed priority order: the
\* initial action is map[w], else map[base], else w lowered; if it is in the
\* inventory it is the sign, also when w itself is in the inventory; otherwise
\* the sign is w lowered, else base, else "do", each if in the inventory, else
\* "work". With inventory {"run", "do"}, "evacuate" resolves to "run" and
\* "xyz123" to "do".
C2_PriorityOrder ==
    Generated =>
        /\ Len(dataset) = TotalRows(all_words)
        /\ \A w \in all_words : SignOf(w) = PrioritySign(w)
        /\ AVAILABLE_SIGNS = {"run", "do"} /\ "evacuate" \in all_words
               => SignOf("evacuate") = "run"
        /\ AVAILABLE_SIGNS = {"run", "do"} /\ "xyz123" \in all_words
               => SignOf("xyz123") = "do"
        /\ {"run", "evacuate"} \subseteq AVAILABLE_SIGNS /\ "evacuate" \in all_words
               => SignOf("evacuate") = "run"

\* The scenario of C2: both words generated against the inventory {"run", "do"}.
C2_Witness ==
    /\ Generated
    /\ AVAILABLE_SIGNS = {"run", "do"}
    /\ all_words = {"evacuate", "xyz123"}
    /\ SignOf("evacuate") = "run"
    /\ SignOf("xyz123") = "do"

\* C3 as stated: with an empty inventory every word's sign is the result of
\* the map-only step (map[w], else map[base], else w lowered), and the dataset
\* has a row for every vocabulary word.
C3_EmptyInventoryMapOnly ==
    Generated /\ AVAILABLE_SIGNS = {} =>
        /\ Len(dataset) = TotalRows(all_words)
        /\ \A w \in all_words :
              /\ dataset[BaseIndex(w)].word = w
              /\ SignOf(w) = mapped_action(w)

\* C3 amended: with an empty inventory every entry's sign is the last
\* fallback "work", whatever the map gives, and the dataset has a row for
\* every vocabulary word.
C3_EmptyInventoryWork ==
    Generated /\ AVAILABLE_SIGNS = {} =>
        /\ Len(dataset) = TotalRows(all_words)
        /\ \A w \in all_words : dataset[BaseIndex(w)].word = w
        /\ \A i \in 1..Len(dataset) : dataset[i].sign = "work"

\* A mapped word generated against an empty inventory.
C3_Witness ==
    /\ Generated
    /\ AVAILABLE_SIGNS = {}
    /\ sign_dir.exists
    /\ "evacuate" \in all_words
    /\ mapped_action("evacuate") = "run"
    /\ SignOf("evacuate") = "work"

\* The entries of the dataset that are the base entry, the "-ing" variant
\* and the "-ed" variant of the vocabulary word w, told by their example.
BaseRows(w) ==
    {i \in 1..Len(dataset) :
        dataset[i].sovExample \in
            {"I people " \o w, "I now " \o w, "I " \o w \o " do", "I " \o w}}

IngRows(w) == {i \in 1..Len(dataset) : dataset[i].sovExample = "I " \o w \o "ing am"}

EdRows(w) == {i \in 1..Len(dataset) : dataset[i].sovExample = "I yesterday " \o w \o "ed"}

RECURSIVE Contributed(_)
Contributed(S) ==
    IF S = {} THEN 0
    ELSE LET w == CHOOSE x \in S : TRUE
         IN  Cardinality(BaseRows(w) \cup IngRows(w) \cup EdRows(w)) + Contributed(S \ {w})

\* C4: variant expansion skips a variant whose suffix the word already
\* carries: no "-ing" row for a word ending in "ing", no "-ed" row for a word
\* ending in "ed"; in every other case the variant row is emitted; each word
\* contributes between one and three rows.
C4_VariantSkippedIffSuffixPresent ==
    Generated =>
        /\ \A w \in all_words :
              /\ Cardinality(BaseRows(w)) = 1
              /\ Cardinality(IngRows(w)) = (IF endswith(w, "ing") THEN 0 ELSE 1)
              /\ Cardinality(EdRows(w)) = (IF endswith(w, "ed") THEN 0 ELSE 1)
              /\ Cardinality(BaseRows(w) \cup IngRows(w) \cup EdRows(w)) \in 1..3
        /\ Len(dataset) = Contributed(all_words)

\* A word ending in "ing" and a word ending in "ed" generated together: two
\* rows each.
C4_Witness ==
    /\ Generated
    /\ all_words = {"sing", "seed"}
    /\ Len(dataset) = 4
    /\ IngRows("sing") = {} /\ EdRows("sing") # {}
    /\ EdRows("seed") = {} /\ IngRows("seed") # {}

\* C5: every "-ing" and "-ed" row carries the sign and the category of the
\* base row of its word, and the rows of one word are a contiguous block in
\* the order base row, "-ing" row (if emitted), "-ed" row (if emitted).
C5_VariantsFollowBaseRow ==
    Generated =>
        /\ Len(dataset) = TotalRows(all_words)
        /\ \A w \in all_words :
              LET b == BaseIndex(w)
                  ing == IF endswith(w, "ing") THEN 0 ELSE 1
                  ed == IF endswith(w, "ed") THEN 0 ELSE 1
              IN  /\ BaseRows(w) = {b}
                  /\ dataset[b].word = w
                  /\ IngRows(w) = {b + k : k \in 1..ing}
                  /\ EdRows(w) = {b + ing + k : k \in 1..ed}
                  /\ \A i \in IngRows(w) \cup EdRows(w) :
                        /\ dataset[i].sign = dataset[b].sign
                        /\ dataset[i].category = dataset[b].category

\* Two words with both variants, the first resolved by the fallback chain
\* and in a category of its own: six rows in two blocks.
C5_Witness ==
    /\ Generated
    /\ all_words = {"evacuate", "walk"}
    /\ AVAILABLE_SIGNS = {"do"}
    /\ Len(dataset) = 6
    /\ \A i \in 1..3 : dataset[i].sign = "do" /\ dataset[i].category = "Disaster Management"
    /\ \A i \in 4..6 : dataset[i].category = "Movement Actions"

\* The example C6 gives a base row of word w in category c.
TemplateOf(w, c) ==
    IF c = "Disaster Management" THEN "I people " \o w
    ELSE IF c \in {"Movement Actions", "Hand Actions"} THEN "I now " \o w
    ELSE IF c = "Daily Activities" THEN "I " \o w \o " do"
    ELSE "I " \o w

\* C6: the example of a base row is a function of (word, category) only:
\* "I people <word>" for "Disaster Management", "I now <word>" for "Movement
\* Actions" and "Hand Actions", "I <word> do" for "Daily Activities",
\* "I <word>" for every other category and the default; "walk" in "Movement
\* Actions" yields "I now walk".
C6_ExampleTemplateByCategory ==
    Generated =>
        /\ Len(dataset) = TotalRows(all_words)
        /\ \A w \in all_words :
              LET r == dataset[BaseIndex(w)]
              IN  /\ r.word = w
                  /\ r.sovExample = TemplateOf(w, r.category)
        /\ "walk" \in all_words =>
              /\ dataset[BaseIndex("walk")].category = "Movement Actions"
              /\ dataset[BaseIndex("walk")].sovExample = "I now walk"

\* A "Hand Actions" word and a "Daily Activities" word generated together.
C6_Witness ==
    /\ Generated
    /\ all_words = {"catch", "wash"}
    /\ dataset[BaseIndex("catch")].sovExample = "I now catch"
    /\ dataset[BaseIndex("wash")].sovExample = "I wash do"

IsPrefix(p, w) == Len(p) <= Len(w) /\ SubSeq(w, 1, Len(p)) = p

\* C7: the stemmed base of a word is the word with a trailing "ing", "ed",
\* "es" or "s" stripped: only the end of the word is affected, so the base is
\* the word itself or the word less one of these suffixes at its end.
C7_StemStripsTrailingSuffixOnly ==
    Generated =>
        \A w \in all_words :
            /\ IsPrefix(base_word(w), w)
            /\ \/ base_word(w) = w
               \/ \E suffix \in {"ing", "ed", "es", "s"} : base_word(w) \o suffix = w

\* The value of the member `key` of a JSON object.
Member(object, key) ==
    object[CHOOSE j \in 1..Len(object) : object[j][1] = key][2]

JsonExported == \E i \in 1..Len(console) : console[i] = Exported("isl-dataset.json")

CsvExported == \E i \in 1..Len(console) : console[i] = Exported("isl-dataset.csv")

TsExported ==
    \E i \in 1..Len(console) : console[i] = "Exported TypeScript dataset to isl-dataset.ts"

\* C8: the CSV export and the JSON export hold the same number of data rows
\* and the same (word, sign) pairs, both in the order of the dataset; the CSV
\* has one header row with the columns word, sign, sovExample, category.
C8_CsvAndJsonAgree ==
    JsonExported /\ CsvExported =>
        LET objects == json_file.content
            rows == csv_file.content
        IN  /\ json_file.exists /\ csv_file.exists
            /\ Len(objects) = Len(dataset)
            /\ Len(rows) = Len(objects) + 1
            /\ rows[1] = <<"word", "sign", "sovExample", "category">>
            /\ \A k \in 2..Len(rows) : rows[k] # rows[1]
            /\ \A i \in 1..Len(objects) :
                  /\ <<rows[i + 1][1], rows[i + 1][2]>>
                        = <<Member(objects[i], "word"), Member(objects[i], "sign")>>
                  /\ <<rows[i + 1][1], rows[i + 1][2]>> = <<dataset[i].word, dataset[i].sign>>

\* Both exports written for a dataset of six entries.
C8_Witness ==
    /\ JsonExported /\ CsvExported
    /\ Len(dataset) = 6
    /\ Len(csv_file.content) = 7
    /\ Len(json_file.content) = 6

\* The words of S in ascending order.
Ascending(S) ==
    CHOOSE l \in IterationOrders(S) : \A i \in 1..(Len(l) - 1) : StrLess(l[i], l[i + 1])

\* The asset files of a directory: the files directly in it that carry the
\* extension ".sigml".
AssetFiles(dir) ==
    IF dir.exists
    THEN {f \in dir.files :
             /\ Len(f) > 6
             /\ SubSeq(f, Len(f) - 5, Len(f)) = ".sigml"
             /\ \A i \in 1..Len(f) : SubSeq(f, i, i) # "/"}
    ELSE {}

\* The file name without the extension ".sigml".
BaseName(f) ==
    SubSeq(f, 1, Len(f) - 6)

\* The dataset as a function of the vocabulary and the asset directory alone.
DatasetOf(words, dir) ==
    generate(Ascending(words), {lower(BaseName(f)) : f \in AssetFiles(dir)})

\* C9: generation and export are deterministic: the row sequence and the
\* contents of the three output files are determined by the vocabulary and
\* the asset inventory, whatever order the word set and the directory scan
\* yield their elements in.
C9_OutputDeterminedByInputs ==
    /\ Generated \/ pc = "done" => dataset = DatasetOf(all_words, sign_dir)
    /\ pc = "done" =>
          /\ json_file = Written(json_dump(dataset))
          /\ csv_file = Written(csv_rows(dataset))
          /\ ts_file = Written(ts_lines(dataset))

\* A completed run over two words listed in descending order, with two
\* asset files.
C9_Witness ==
    /\ pc = "done"
    /\ CISLR_VOCABULARY = <<"walk", "catch">>
    /\ Cardinality(AssetFiles(sign_dir)) = 2
    /\ dataset[1].word = "catch"
    /\ ts_file.exists

\* C10: the main run generates, prints the statistics, then exports JSON,
\* CSV, TypeScript in that order; when an export fails the run ends there:
\* nothing further happens (no retry, no later export), the completion
\* message is not printed, and the files of the earlier exports stay as
\* written.
C10_ExportOrderAndFatalFailure ==
    /\ json_file # NoFile => pc \notin {"load", "generate", "statistics"}
                             /\ statistics.total = Len(dataset)
                             /\ dataset # <<>>
    /\ csv_file # NoFile => JsonExported
    /\ ts_file # NoFile => JsonExported /\ CsvExported
    /\ JsonExported => json_file = Written(json_dump(dataset))
    /\ CsvExported => csv_file = Written(csv_rows(dataset))
    /\ TsExported => ts_file = Written(ts_lines(dataset))
    /\ pc \in {"complete", "done"} <=> TsExported
    /\ pc = "crashed" =>
          /\ ~ENABLED Next
          /\ \A i \in 1..Len(console) : console[i] # "Dataset generation complete!"
          /\ ~TsExported
          /\ ~JsonExported => csv_file = NoFile /\ ts_file = NoFile
          /\ ~CsvExported => ts_file = NoFile

\* The CSV export failed after truncating its file: the JSON file is whole,
\* the TypeScript file was never opened.
C10_Witness ==
    /\ pc = "crashed"
    /\ JsonExported /\ ~CsvExported
    /\ json_file = Written(json_dump(dataset))
    /\ csv_file = Written(<<>>)
    /\ ts_file = NoFile

\* The words listed in one of the three vocabulary lists.
Listed ==
    {CISLR_VOCABULARY[i] : i \in 1..Len(CISLR_VOCABULARY)}
    \cup {INCLUDE_VOCABULARY[i] : i \in 1..Len(INCLUDE_VOCABULARY)}
    \cup {ISLTRANSLATE_VOCABULARY[i] : i \in 1..Len(ISLTRANSLATE_VOCABULARY)}

\* The number of entries of the three lists that are the word w.
Occurrences(w) ==
    Cardinality({i \in 1..Len(CISLR_VOCABULARY) : CISLR_VOCABULARY[i] = w})
    + Cardinality({i \in 1..Len(INCLUDE_VOCABULARY) : INCLUDE_VOCABULARY[i] = w})
    + Cardinality({i \in 1..Len(ISLTRANSLATE_VOCABULARY) : ISLTRANSLATE_VOCABULARY[i] = w})

\* C11: the aggregator deduplicates: a word listed several times, in one
\* list or in several, yields exactly one base row; every distinct listed
\* word yields a base row; the base rows stand in strictly ascending
\* lexicographic order of their word.
C11_OneBaseRowPerWordAscending ==
    Generated =>
        /\ \A w \in Listed : Cardinality(BaseRows(w)) = 1
        /\ \A v, w \in Listed :
              StrLess(v, w) => \A i \in BaseRows(v), j \in BaseRows(w) : i < j
        /\ UNION {BaseRows(w) \cup IngRows(w) \cup EdRows(w) : w \in Listed}
              = 1..Len(dataset)

\* A word listed in two of the lists has been generated into one base row
\* and its two variants.
C11_Witness ==
    /\ Generated
    /\ Occurrences("pay") = 2
    /\ Len(INCLUDE_VOCABULARY) = 1
    /\ Len(ISLTRANSLATE_VOCABULARY) = 1
    /\ Cardinality(BaseRows("pay")) = 1
    /\ Len(dataset) = 3

\* C12: a missing asset directory, or one holding no asset file, is not an
\* error: the inventory is then empty, and otherwise it is exactly the
\* lower-cased base names of the asset files directly in the directory; the
\* generation that follows gives a base row for every vocabulary word.
C12_InventoryOfDirectory ==
    /\ pc = "generate" =>
          /\ AVAILABLE_SIGNS = {lower(BaseName(f)) : f \in AssetFiles(sign_dir)}
          /\ ~sign_dir.exists \/ AssetFiles(sign_dir) = {} => AVAILABLE_SIGNS = {}
    /\ Generated => \A w \in Listed : BaseRows(w) # {}

\* The generation has run with a directory that exists and holds files, none
\* of them an asset file, and has given rows.
C12_Witness ==
    /\ Generated
    /\ AssetFiles(sign_dir) = {}
    /\ sign_dir.exists
    /\ sign_dir.files # {}
    /\ Len(dataset) > 0

\* Where the "-ing" entry and the "-ed" entry of w stand, for a word that
\* has them.
IngIndex(w) == BaseIndex(w) + 1

EdIndex(w) == BaseIndex(w) + RowsOf(w) - 1

\* C13: every row's sovExample holds the row's own word verbatim; the "-ing"
\* row with word v has sovExample "I v am" and the "-ed" row with word v has
\* sovExample "I yesterday v", also for base words ending in "e".
C13_ExampleHoldsRowWord ==
    Generated =>
        /\ \A i \in 1..Len(dataset) : contains(dataset[i].sovExample, dataset[i].word)
        /\ \A w \in all_words :
              /\ ~endswith(w, "ing") =>
                    dataset[IngIndex(w)].sovExample
                        = "I " \o dataset[IngIndex(w)].word \o " am"
              /\ ~endswith(w, "ed") =>
                    dataset[EdIndex(w)].sovExample
                        = "I yesterday " \o dataset[EdIndex(w)].word

\* Whether w ends in the letter "e".
EndsInE(w) == Len(w) > 0 /\ SubSeq(w, Len(w), Len(w)) = "e"

\* C14: the "-ing" row's word is w + "ing" when w does not end in "e" and w
\* without its final "e" followed by "ing" when it does; the "-ed" row's
\* word is w + "ed" when w does not end in "e" and w + "d" when it does.
C14_VariantWordDerivation ==
    Generated =>
        \A w \in Listed :
            /\ dataset[BaseIndex(w)].word = w
            /\ IngRows(w) # {} =>
                  \A i \in IngRows(w) :
                      dataset[i].word = IF EndsInE(w)
                                        THEN SubSeq(w, 1, Len(w) - 1) \o "ing"
                                        ELSE w \o "ing"
            /\ EdRows(w) # {} =>
                  \A i \in EdRows(w) :
                      dataset[i].word = IF EndsInE(w) THEN w \o "d" ELSE w \o "ed"

\* The variants of a word ending in "e" and of a word not ending in "e"
\* stand in one dataset.
C14_Witness ==
    /\ Generated
    /\ Listed = {"evacuate", "walk"}
    /\ \E i \in IngRows("evacuate") : dataset[i].word = "evacuating"
    /\ \E i \in EdRows("evacuate") : dataset[i].word = "evacuated"
    /\ \E i \in IngRows("walk") : dataset[i].word = "walking"
    /\ \E i \in EdRows("walk") : dataset[i].word = "walked"

\* The positions in the category table of the categories that list w.
Listing(w) ==
    {k \in 1..Len(categories) :
        \E i \in 1..Len(categories[k][2]) : categories[k][2][i] = w}

\* The category of w: the last one that lists it, else the default.
CategoryOf(w) ==
    IF Listing(w) = {} THEN "General"
    ELSE categories[CHOOSE k \in Listing(w) : \A j \in Listing(w) : j <= k][1]

\* C15: every row's category is "General" or a name of the category table;
\* it is "General" exactly when the base word is in no category's list, and
\* the last category in declaration order when several list the word; the
\* example template of the base row is the one of that category.
C15_CategoryLastDeclaredOrGeneral ==
    Generated =>
        /\ \A i \in 1..Len(dataset) :
              dataset[i].category \in
                  {"General"} \cup {categories[k][1] : k \in 1..Len(categories)}
        /\ \A w \in Listed :
              LET first == BaseIndex(w)
                  c     == CategoryOf(w)
              IN  /\ \A i \in first..(first + RowsOf(w) - 1) : dataset[i].category = c
                  /\ c = "General" <=> Listing(w) = {}
                  /\ dataset[first].sovExample = TemplateOf(w, c)

\* A word listed under two categories beside a word listed under none.
C15_Witness ==
    /\ Generated
    /\ Listed = {"pay", "see"}
    /\ Cardinality(Listing("pay")) = 2
    /\ dataset[BaseIndex("pay")].category = "Financial"
    /\ dataset[BaseIndex("see")].category = "General"

\* C16: a word value identifies its sign and category: two rows with the
\* same word have the same sign and the same category.
C16_WordIdentifiesSignAndCategory ==
    Generated =>
        \A i, j \in 1..Len(dataset) :
            dataset[i].word = dataset[j].word =>
                /\ dataset[i].sign = dataset[j].sign
                /\ dataset[i].category = dataset[j].category

====
